---- MODULE Spec2Model ----
(***************************************************************************)
(* The filter engine of survey_tool: DataLoader (data_loader.py) holds the *)
(* current table df and the table as loaded, original_df; SurveyAnalyzer   *)
(* (analyzer.py) holds the active filters and narrows DataLoader.df.       *)
(*                                                                         *)
(* A table is a sequence of rows. A row carries its pandas index label     *)
(* (id) and one cell per column. A cell is NaN (missing), a Python str, or *)
(* a non-string scalar (a number); every cell carries the text str(value)  *)
(* gives for it, as a sequence of one-character strings, so that splitting *)
(* on ';' and trimming are computed and not assumed.                       *)
(*                                                                         *)
(* SurveyCLI (cli.py) binds a SurveyAnalyzer to its DataLoader on every     *)
(* successful load and runs the commands of the user in a loop;            *)
(* SurveyVisualizer (visualizer.py) orders a distribution for display;     *)
(* SurveyFilter (filter.py) and SurveyDistribution (distribution.py) are   *)
(* the stand-alone filter and distribution classes.                        *)
(***************************************************************************)
EXTENDS Integers, Sequences, FiniteSets, TLC

VARIABLES file, df, original_df, filters, held, ret,
          analyzer, file_path, loaded_file, loop

vars == <<file, df, original_df, filters, held, ret,
          analyzer, file_path, loaded_file, loop>>

\* what only a load or the command loop changes: whether a SurveyAnalyzer is
\* bound, DataLoader.file_path, SurveyCLI.loaded_file, the state of the loop
session == <<analyzer, file_path, loaded_file, loop>>

(***************************************************************************)
(* Bounds of the model.                                                    *)
(***************************************************************************)
\* the largest number of respondents (rows) of a loaded table
MaxRows == 2
\* how many times the caller changes a mapping it got from the analyzer
MaxMutations == 1
\* the largest number of options of a distribution handed to the renderer
MaxOptions == 3
\* the largest count of an option of such a distribution
MaxCount == 2

(***************************************************************************)
(* Values.                                                                 *)
(***************************************************************************)
\* DataLoader.df / original_df before any load (Python None)
NoData == [none |-> TRUE, rows |-> <<>>, cols |-> {}]

\* the caller holds no mapping
NoHandle == [none |-> TRUE, val |-> <<>>, alias |-> FALSE, n |-> 0]

\* the columns of the loaded table, and a name that is no column
Columns == {"Age", "Languages"}

NonExistent == "NonExistent"

Questions == Columns \cup {NonExistent}

\* a table the loader holds, with its rows; it has the columns of the sheet
Table(rows) == [none |-> FALSE, rows |-> rows, cols |-> Columns]

\* what read_excel returns for a sheet without any cell: no row, no column
BlankTable == [none |-> FALSE, rows |-> <<>>, cols |-> {}]

NaN == [kind |-> "nan", s |-> <<>>]

StrCell(s) == [kind |-> "str", s |-> s]

\* a numeric cell; s is what str(value) returns for it
NumCell(s) == [kind |-> "num", s |-> s]

\* the cells a column of a loaded table may hold
CellsOf(question) ==
  IF question = "Languages"
  THEN { NaN,
         StrCell(<<"1">>),
         StrCell(<<"1", ";", " ", "A">>),
         NumCell(<<"1">>) }
  ELSE { StrCell(<<"A">>), StrCell(<<"B">>) }

\* the option strings a caller filters by
Options == { <<"A">>, <<"B">>, <<"1">> }

\* the values a caller writes into a mapping it was handed
WrittenValues == { <<"B">> }

RowCells == { c \in [Columns -> UNION { CellsOf(q) : q \in Columns }] :
                \A q \in Columns : c[q] \in CellsOf(q) }

\* the tables read_excel can return that load_data accepts (not empty);
\* the index labels are 1..n in row order
Tables == UNION { { [i \in 1..n |-> [id |-> i, c |-> cs[i]]] : cs \in [1..n -> RowCells] } :
                  n \in 1..MaxRows }

\* the paths a session passes to load: the survey file, a path that does
\* not exist, a file that is no workbook, a sheet with a header row only,
\* and a sheet without any cell
SurveyPath == "survey.xlsx"

MissingPath == "missing.xlsx"

UnreadablePath == "notes.txt"

HeaderOnlyPath == "header_only.xlsx"

BlankPath == "blank.xlsx"

Paths == {SurveyPath, MissingPath, UnreadablePath, HeaderOnlyPath, BlankPath}

(***************************************************************************)
(* Python and pandas primitives.                                           *)
(***************************************************************************)
\* pd.isna(value)
isna(value) == value.kind = "nan"

\* isinstance(value, str)
isinstance_str(value) == value.kind = "str"

\* str(value)
str(value) == value.s

\* ch in s
InStr(ch, s) == \E i \in 1..Len(s) : s[i] = ch

\* s.split(';')
RECURSIVE split(_)
split(s) ==
  IF ~InStr(";", s) THEN <<s>>
  ELSE LET i == CHOOSE k \in 1..Len(s) : s[k] = ";" /\ \A j \in 1..(k - 1) : s[j] # ";"
       IN  <<SubSeq(s, 1, i - 1)>> \o split(SubSeq(s, i + 1, Len(s)))

RECURSIVE lstrip(_)
lstrip(s) == IF s # <<>> /\ Head(s) = " " THEN lstrip(Tail(s)) ELSE s

RECURSIVE rstrip(_)
rstrip(s) == IF s # <<>> /\ s[Len(s)] = " " THEN rstrip(SubSeq(s, 1, Len(s) - 1)) ELSE s

\* s.strip()
strip(s) == rstrip(lstrip(s))

\* a Python dict as a function on its keys
EmptyDict == [k \in {} |-> <<>>]

\* d[key] = value
DictSet(d, key, value) == [k \in DOMAIN d \cup {key} |-> IF k = key THEN value ELSE d[k]]

\* del d[key]
DictDel(d, key) == [k \in DOMAIN d \ {key} |-> d[k]]

\* the comparison of one element of a column with a str: series == option.
\* NaN equals nothing and a number never equals a str.
series_eq(value, option) == isinstance_str(value) /\ value.s = option

(***************************************************************************)
(* DataLoader.                                                             *)
(***************************************************************************)
\* os.path.exists(file_path)
path_exists(path) == path # MissingPath

\* pd.read_excel(file_path) raises
read_excel_raises(path) == path = UnreadablePath

\* the table pd.read_excel(file_path) returns; survey is the table stored in
\* the survey file
read_excel(path, survey) ==
  IF path = SurveyPath THEN Table(survey)
  ELSE IF path = HeaderOnlyPath THEN Table(<<>>)
  ELSE BlankTable

\* DataFrame.empty: an axis of length 0
empty(d) == Len(d.rows) = 0 \/ d.cols = {}

\* a plausible slip: the check of an empty table is left out
load_data_raised_unchecked(path, survey) ==
  IF ~path_exists(path) THEN "FileNotFoundError"
  ELSE IF read_excel_raises(path) THEN "ValueError: Error reading file"
  ELSE "none"

\* the exception DataLoader.load_data(file_path) ends with, "none" when it
\* returns the table
load_data_raised(path, survey) ==
  IF ~path_exists(path) THEN "FileNotFoundError"
  ELSE IF read_excel_raises(path) THEN "ValueError: Error reading file"
  ELSE IF empty(read_excel(path, survey)) THEN "ValueError: empty"
  ELSE "none"

\* a plausible slip: the test for a missing table is left out
no_data_unchecked(d) == FALSE

\* df is None
no_data(d) == d.none

\* DataLoader.get_data()
get_data == df

\* question in df.columns
has_column(d, question) == question \in d.cols

\* a plausible slip: every non-missing value has to hold ';'
is_multiple_choice_all(d, question) ==
  IF d = NoData \/ ~has_column(d, question) THEN FALSE
  ELSE /\ \E i \in 1..Len(d.rows) : ~isna(d.rows[i].c[question])
       /\ \A i \in 1..Len(d.rows) :
            LET value == d.rows[i].c[question]
            IN  ~isna(value) => (isinstance_str(value) /\ InStr(";", value.s))

\* a plausible slip: the table as loaded is inspected, not the current one
is_multiple_choice_original(d, question) ==
  IF original_df = NoData \/ ~has_column(original_df, question) THEN FALSE
  ELSE \E i \in 1..Len(original_df.rows) :
         LET value == original_df.rows[i].c[question]
         IN  ~isna(value) /\ isinstance_str(value) /\ InStr(";", value.s)

\* DataLoader.is_multiple_choice(question) on the table d: some non-missing
\* value of the column is a str holding ';'
is_multiple_choice(d, question) ==
  IF d = NoData \/ ~has_column(d, question) THEN FALSE
  ELSE \E i \in 1..Len(d.rows) :
         LET value == d.rows[i].c[question]
         IN  ~isna(value) /\ isinstance_str(value) /\ InStr(";", value.s)

\* a plausible slip: a question that is no column is reported as an error
is_multiple_choice_raised_strict(d, question) ==
  IF d # NoData /\ ~has_column(d, question) THEN "ValueError: not found" ELSE "none"

\* the exception DataLoader.is_multiple_choice(question) ends with: none,
\* its guard returns False for a missing table and for an unknown column
is_multiple_choice_raised(d, question) == "none"

\* a plausible slip: the guard of reset_data inverted, so nothing is restored
reset_data_skipped(d, orig) == [df |-> d, original_df |-> orig]

\* a plausible slip: the assignment of reset_data reversed
reset_data_reversed(d, orig) ==
  IF orig # NoData THEN [df |-> d, original_df |-> d] ELSE [df |-> d, original_df |-> orig]

\* DataLoader.reset_data(): the loader's two tables after the call
reset_data(d, orig) ==
  IF orig # NoData THEN [df |-> orig, original_df |-> orig] ELSE [df |-> d, original_df |-> orig]

(***************************************************************************)
(* SurveyAnalyzer.                                                         *)
(***************************************************************************)
\* a plausible slip: the pieces are not trimmed
option_in_multiple_choice_untrimmed(value, option) ==
  IF isna(value) THEN FALSE
  ELSE LET value_str == str(value)
       IN  IF InStr(";", value_str)
           THEN LET parts == split(value_str)
                IN  \E i \in 1..Len(parts) : parts[i] = option
           ELSE value_str = option

\* SurveyAnalyzer._option_in_multiple_choice(value, option)
option_in_multiple_choice(value, option) ==
  IF isna(value) THEN FALSE
  ELSE LET value_str == str(value)
       IN  IF InStr(";", value_str)
           THEN LET parts == [i \in 1..Len(split(value_str)) |-> strip(split(value_str)[i])]
                IN  \E i \in 1..Len(parts) : parts[i] = option
           ELSE value_str = option

\* the mask filter_respondents builds over the table d, at one row
mask(d, question, option, row) ==
  IF is_multiple_choice(d, question)
  THEN option_in_multiple_choice(row.c[question], option)
  ELSE series_eq(row.c[question], option)

\* df[mask].copy(): the rows of d the mask keeps, in d's order
filtered(d, question, option) ==
  [d EXCEPT !.rows = SelectSeq(d.rows, LAMBDA row : mask(d, question, option, row))]

\* what one value adds to the set of DataLoader.get_unique_values: the
\* stripped pieces of a str holding ';', else str(value)
unique_values_of(value) ==
  IF isna(value) THEN {}
  ELSE IF isinstance_str(value) /\ InStr(";", value.s)
       THEN { strip(split(value.s)[i]) : i \in 1..Len(split(value.s)) }
       ELSE { str(value) }

\* DataLoader.get_unique_values(question) on the table d: the elements of
\* the sorted list it returns
get_unique_values(d, question) ==
  IF no_data(d) \/ ~has_column(d, question) THEN {}
  ELSE UNION { unique_values_of(d.rows[i].c[question]) : i \in 1..Len(d.rows) }

\* match(val) inside SurveyFilter.apply_filter: a missing value never
\* matches, a str matches by its stripped pieces, any other value by
\* val == option
match(val, option) ==
  IF isna(val) THEN FALSE
  ELSE IF isinstance_str(val)
       THEN \E i \in 1..Len(split(val.s)) : strip(split(val.s)[i]) = option
       ELSE series_eq(val, option)

\* SurveyFilter.apply_filter(question, option) on the view d: the view it
\* leaves; a question that is no column leaves d as it is
apply_filter(d, question, option) ==
  IF ~has_column(d, question) THEN d
  ELSE [d EXCEPT !.rows = SelectSeq(d.rows, LAMBDA row : match(row.c[question], option))]

\* a plausible slip: the filter is stored before the column is looked up
filters_after_lookup_early(f, question, option, found) == DictSet(f, question, option)

\* a plausible slip: an option already stored for the question is kept
filters_after_lookup_setdefault(f, question, option, found) ==
  IF found /\ question \notin DOMAIN f THEN DictSet(f, question, option) ELSE f

\* self.filters after the lookup of the column: the filter is stored only
\* once the question was found
filters_after_lookup(f, question, option, found) ==
  IF found THEN DictSet(f, question, option) ELSE f

\* a plausible slip: the count is taken from the table before the filter
filter_return_before(before, after) == Len(before.rows)

\* the value filter_respondents returns: len(self.data_loader.df)
filter_return(before, after) == Len(after.rows)

\* a plausible slip: the filters of the previous analyzer are carried over
filters_after_load_kept(f, raised) == f

\* the active filters after a load: SurveyAnalyzer(loader) starts with
\* self.filters = {} when load_data returned; a load that raised leaves the
\* analyzer that was there
filters_after_load(f, raised) == IF raised = "none" THEN EmptyDict ELSE f

\* a plausible slip: the analyzer's own dict is handed out
get_active_filters_alias(f) == [none |-> FALSE, val |-> f, alias |-> TRUE, n |-> 0]

\* SurveyAnalyzer.get_active_filters(): self.filters.copy(), a new dict
get_active_filters_result(f) == [none |-> FALSE, val |-> f, alias |-> FALSE, n |-> 0]

\* a plausible slip: the rows of the table as loaded are counted
total_respondents_original(d) == Len(original_df.rows)

\* total_respondents = len(df)
total_respondents(d) == Len(d.rows)

\* option_counts[option] = option_counts.get(option, 0) + 1
Incr(counts, key) ==
  DictSet(counts, key, IF key \in DOMAIN counts THEN counts[key] + 1 ELSE 1)

\* a plausible slip: a piece that repeats within a cell is counted once
RECURSIVE count_pieces_distinct(_, _)
count_pieces_distinct(counts, pieces) ==
  IF pieces = <<>> THEN counts
  ELSE LET option == strip(Head(pieces))
           rest == SelectSeq(Tail(pieces), LAMBDA piece : strip(piece) # option)
       IN  count_pieces_distinct(
             DictSet(counts, option,
                     IF option \in DOMAIN counts THEN counts[option] + 1 ELSE 1),
             rest)

\* the inner loop of _get_multiple_choice_distribution over value.split(';')
RECURSIVE count_pieces(_, _)
count_pieces(counts, pieces) ==
  IF pieces = <<>> THEN counts
  ELSE count_pieces(Incr(counts, strip(Head(pieces))), Tail(pieces))

\* the loop of _get_multiple_choice_distribution over df[question].dropna()
RECURSIVE count_options(_, _, _)
count_options(counts, rows, question) ==
  IF rows = <<>> THEN counts
  ELSE LET value == Head(rows).c[question]
           counted == IF isna(value) THEN counts
                      ELSE IF isinstance_str(value) /\ InStr(";", value.s)
                           THEN count_pieces(counts, split(value.s))
                           ELSE Incr(counts, str(value))
       IN  count_options(counted, Tail(rows), question)

\* a plausible slip: only the first piece of a cell is counted
multiple_choice_counts_first(d, question) ==
  LET firsts == [i \in 1..Len(d.rows) |->
                   LET value == d.rows[i].c[question]
                   IN  [d.rows[i] EXCEPT !.c[question] =
                          IF isna(value) THEN value
                          ELSE StrCell(strip(Head(split(value.s))))]]
  IN  count_options(EmptyDict, firsts, question)

\* option_counts of _get_multiple_choice_distribution: option -> occurrences
multiple_choice_counts(d, question) == count_options(EmptyDict, d.rows, question)

\* df[question].value_counts(): the distinct non-missing values with the
\* number of rows holding each, in descending order of that number (equal
\* numbers in order of first appearance)
value_counts(rows, question) ==
  LET vals == { rows[i].c[question] : i \in 1..Len(rows) } \ {NaN}
      cnt(v) == Cardinality({ i \in 1..Len(rows) : rows[i].c[question] = v })
      first(v) == CHOOSE i \in 1..Len(rows) :
                    /\ rows[i].c[question] = v
                    /\ \A j \in 1..(i - 1) : rows[j].c[question] # v
      before(v, w) == cnt(v) > cnt(w) \/ (cnt(v) = cnt(w) /\ first(v) < first(w))
      rank(v) == 1 + Cardinality({ w \in vals : before(w, v) })
  IN  [k \in 1..Cardinality(vals) |->
         LET v == CHOOSE w \in vals : rank(w) = k
         IN  [value |-> v, count |-> cnt(v)]]

\* the loop of _get_single_choice_distribution: distribution[str(value)] is
\* assigned for each value in turn, a later value with the same text
\* replacing the entry of an earlier one
RECURSIVE assign_counts(_, _)
assign_counts(counts, vc) ==
  IF vc = <<>> THEN counts
  ELSE assign_counts(DictSet(counts, str(Head(vc).value), Head(vc).count), Tail(vc))

\* a plausible slip: the values of the table as loaded are counted
single_choice_counts_original(d, question) ==
  assign_counts(EmptyDict, value_counts(original_df.rows, question))

\* the counts of _get_single_choice_distribution: key -> count
single_choice_counts(d, question) ==
  assign_counts(EmptyDict, value_counts(d.rows, question))

\* round((count / total) * 100, 2) in hundredths of a percent, total > 0:
\* the nearest hundredth, a tie going to the even one
percentage(count, total) ==
  LET n == count * 10000
      q == n \div total
      r == n % total
  IN  IF 2 * r < total THEN q
      ELSE IF 2 * r > total THEN q + 1
      ELSE IF q % 2 = 0 THEN q ELSE q + 1

\* the returned mapping: key -> {'count': ..., 'percentage': ...}
distribution(counts, total) ==
  [k \in DOMAIN counts |-> [count |-> counts[k], percentage |-> percentage(counts[k], total)]]

\* count / total is evaluated with total = 0 (ZeroDivisionError for Python
\* ints; no finite percentage for numpy's)
divides_by_zero(counts, total) == total = 0 /\ DOMAIN counts # {}

\* what the last call was and how it ended: the exception raised, the count
\* returned, and for reset_filters the length of the view before the call
Ret(op, question, option, branch, raised, count, before) ==
  [op |-> op, question |-> question, option |-> option, branch |-> branch,
   raised |-> raised, count |-> count, before |-> before,
   path |-> "", dist |-> <<>>, items |-> <<>>, top_n |-> 0, shown |-> <<>>]

\* the outcome of get_distribution(question): the mapping returned, and in
\* count the denominator it used
RetDist(question, branch, raised, dist, total) ==
  [Ret("get_distribution", question, <<>>, branch, raised, total, 0) EXCEPT !.dist = dist]

\* the outcome of load_data(path)
RetLoad(path, raised, count) ==
  [Ret("load_data", "", <<>>, "none", raised, count, 0) EXCEPT !.path = path]

NoStr == <<>>

\* len(df), 0 while there is no table
Rows(d) == Len(d.rows)

(***************************************************************************)
(* The session.                                                            *)
(***************************************************************************)
\* file_path / loaded_file before any load (Python None)
NoPath == "None"

\* a DataLoader with a SurveyAnalyzer on it, before any load; file is the
\* table stored in the XLSX file the session loads
Init ==
  /\ file \in Tables
  /\ df = NoData
  /\ original_df = NoData
  /\ filters = EmptyDict
  /\ held = NoHandle
  /\ ret = Ret("init", "", NoStr, "none", "none", 0, 0)
  /\ analyzer = TRUE
  /\ file_path = NoPath
  /\ loaded_file = NoPath
  /\ loop = "running"

\* DataLoader.load_data(path) reads the table and keeps a copy as
\* original_df, both before it tests for an empty table; when load_data
\* returns, a new SurveyAnalyzer (no filters) is bound to the loader, and
\* when it raises, the analyzer and its filters stay
load_data(path) ==
  LET raised == load_data_raised(path, file)
      was_read == path_exists(path) /\ ~read_excel_raises(path)
  IN  /\ df' = IF was_read THEN read_excel(path, file) ELSE df
      /\ original_df' = IF was_read THEN read_excel(path, file) ELSE original_df
      /\ file_path' = IF was_read THEN path ELSE file_path
      /\ filters' = filters_after_load(filters, raised)
      /\ analyzer' = IF raised = "none" THEN TRUE ELSE analyzer
      /\ held' = NoHandle
      /\ ret' = RetLoad(path, raised, IF raised = "none" THEN Rows(df') ELSE 0)
      /\ UNCHANGED <<file, loaded_file, loop>>

\* SurveyAnalyzer.filter_respondents(question, option)
filter_respondents(question, option) ==
  LET d == get_data IN
  /\ UNCHANGED session
  /\ IF no_data(d)
     THEN /\ ret' = Ret("filter_respondents", question, option, "none",
                        "ValueError: No data loaded", 0, 0)
          /\ held' = NoHandle
          /\ UNCHANGED <<file, df, original_df, filters>>
     ELSE LET found == has_column(d, question) IN
          /\ filters' = filters_after_lookup(filters, question, option, found)
          /\ held' = NoHandle
          /\ UNCHANGED <<file, original_df>>
          /\ IF ~found
             THEN /\ ret' = Ret("filter_respondents", question, option, "none",
                                "ValueError: not found", 0, 0)
                  /\ UNCHANGED df
             ELSE /\ df' = filtered(d, question, option)
                  /\ ret' = Ret("filter_respondents", question, option,
                                IF is_multiple_choice(d, question) THEN "multiple" ELSE "single",
                                "none", filter_return(d, df'), 0)

\* SurveyAnalyzer.get_distribution(question)
get_distribution(question) ==
  LET d == get_data IN
  /\ held' = NoHandle
  /\ UNCHANGED <<file, df, original_df, filters>>
  /\ UNCHANGED session
  /\ IF no_data(d)
     THEN ret' = RetDist(question, "none", "ValueError: No data loaded", <<>>, 0)
     ELSE IF ~has_column(d, question)
     THEN ret' = RetDist(question, "none", "ValueError: not found", <<>>, 0)
     ELSE LET total == total_respondents(d)
              multi == is_multiple_choice(d, question)
              counts == IF multi THEN multiple_choice_counts(d, question)
                        ELSE single_choice_counts(d, question)
              branch == IF multi THEN "multiple" ELSE "single"
          IN  IF divides_by_zero(counts, total)
              THEN ret' = RetDist(question, branch, "ZeroDivisionError", <<>>, total)
              ELSE ret' = RetDist(question, branch, "none", distribution(counts, total), total)

\* DataLoader.is_multiple_choice(question), called on the loader
classify(question) ==
  /\ ret' = Ret("is_multiple_choice", question, NoStr,
                IF is_multiple_choice(df, question) THEN "multiple" ELSE "single",
                is_multiple_choice_raised(df, question), 0, 0)
  /\ held' = NoHandle
  /\ UNCHANGED <<file, df, original_df, filters>>
  /\ UNCHANGED session

\* SurveyAnalyzer.reset_filters()
reset_filters ==
  /\ filters' = EmptyDict
  /\ df' = reset_data(df, original_df).df
  /\ original_df' = reset_data(df, original_df).original_df
  /\ held' = NoHandle
  /\ ret' = Ret("reset_filters", "", NoStr, "none", "none", Rows(df'), Rows(df))
  /\ UNCHANGED file
  /\ UNCHANGED session

\* SurveyAnalyzer.get_active_filters(): the caller now holds the result
get_active_filters ==
  /\ held' = get_active_filters_result(filters)
  /\ ret' = Ret("get_active_filters", "", NoStr, "none", "none", 0, 0)
  /\ UNCHANGED <<file, df, original_df, filters>>
  /\ UNCHANGED session

\* the value of 'filter_details' in the dict get_summary_stats returns:
\* self.filters itself
filter_details(f) == [none |-> FALSE, val |-> f, alias |-> TRUE, n |-> 0]

\* SurveyAnalyzer.get_summary_stats(): {} before any load, else a new dict
\* whose 'filter_details' the caller now holds
get_summary_stats ==
  /\ held' = IF no_data(get_data) THEN get_active_filters_result(EmptyDict)
             ELSE filter_details(filters)
  /\ ret' = Ret("get_summary_stats", "", NoStr, "none", "none",
                IF no_data(get_data) THEN 0 ELSE Rows(get_data), Cardinality(DOMAIN filters))
  /\ UNCHANGED <<file, df, original_df, filters>>
  /\ UNCHANGED session

\* the caller changes the mapping it holds: it adds a key of its own,
\* changes the value of an entry (m[key] = value) or removes one (del m[key]).
\* When that mapping is the analyzer's own dict, the analyzer sees the change.
mutate_returned(key, value, delete) ==
  /\ held # NoHandle
  /\ held.n < MaxMutations
  /\ key \in DOMAIN held.val \cup {NonExistent}
  /\ delete => key \in DOMAIN held.val
  /\ LET m == IF delete THEN DictDel(held.val, key) ELSE DictSet(held.val, key, value)
     IN  /\ held' = [held EXCEPT !.val = m, !.n = @ + 1]
         /\ filters' = IF held.alias THEN m ELSE filters
  /\ ret' = Ret("mutate_returned", "", NoStr, "none", "none", 0, 0)
  /\ UNCHANGED <<file, df, original_df>>
  /\ UNCHANGED session

\* the options a session filters a question by
OptionsOf(question) ==
  IF question = "Languages" THEN { <<"A">>, <<"1">> }
  ELSE IF question = "Age" THEN { <<"A">>, <<"B">> }
  ELSE { <<"A">> }

\* the filters a session asks for, one of them on a question that is no
\* column
FilterCalls == { call \in Questions \X Options : call[2] \in OptionsOf(call[1]) }

\* a session of loads, filters, resets, classifications and distributions
Next ==
  \/ \E path \in Paths : load_data(path)
  \/ \E call \in FilterCalls : filter_respondents(call[1], call[2])
  \/ reset_filters
  \/ \E question \in Questions : get_distribution(question)
  \/ \E question \in Questions : classify(question)

Spec == Init /\ [][Next]_vars

\* a session on the survey file whose caller also asks for the active
\* filters and changes the mapping it gets
NextCaller ==
  \/ load_data(SurveyPath)
  \/ \E call \in FilterCalls : filter_respondents(call[1], call[2])
  \/ reset_filters
  \/ get_active_filters
  \/ \E key \in Questions, value \in WrittenValues, delete \in BOOLEAN :
       mutate_returned(key, value, delete)

SpecCaller == Init /\ [][NextCaller]_vars

\* a session whose caller changes what the read operations hand out
NextReader ==
  \/ load_data(SurveyPath)
  \/ \E call \in FilterCalls : filter_respondents(call[1], call[2])
  \/ reset_filters
  \/ get_active_filters
  \/ get_summary_stats
  \/ \E question \in Columns : get_distribution(question)
  \/ \E key \in Questions, value \in WrittenValues, delete \in BOOLEAN :
       mutate_returned(key, value, delete)

SpecReader == Init /\ [][NextReader]_vars

(***************************************************************************)
(* Cells with repeated and empty pieces, and SurveyDistribution.           *)
(***************************************************************************)
\* the cells of the Languages column of these files: a piece twice, an
\* empty piece, a plain text, a number, a missing value
PieceCells ==
  { NaN,
    StrCell(<<"A", ";", "A">>),
    StrCell(<<"A", ";", ";", "B">>),
    StrCell(<<"A">>),
    NumCell(<<"1">>) }

\* the tables of these files: the index labels are 1..n in row order
PieceTables ==
  UNION { { [i \in 1..n |-> [id |-> i,
                              c |-> [q \in Columns |->
                                       IF q = "Languages" THEN cs[i] ELSE StrCell(<<"A">>)]]] :
              cs \in [1..n -> PieceCells] } :
          n \in 1..MaxRows }

\* a DataLoader with a SurveyAnalyzer on it, before any load
InitPieces ==
  /\ file \in PieceTables
  /\ df = NoData
  /\ original_df = NoData
  /\ filters = EmptyDict
  /\ held = NoHandle
  /\ ret = Ret("init", "", NoStr, "none", "none", 0, 0)
  /\ analyzer = TRUE
  /\ file_path = NoPath
  /\ loaded_file = NoPath
  /\ loop = "running"

\* counts[v] = counts.get(v, 0) + 1; total += 1
sd_add(acc, key) ==
  [counts |-> Incr(acc.counts, key), total |-> acc.total + 1]

\* a plausible slip: total counts the cell once, whatever its pieces
RECURSIVE sd_pieces_once(_, _)
sd_pieces_once(acc, pieces) ==
  IF pieces = <<>> THEN acc
  ELSE LET counted == sd_add(acc, StrCell(strip(Head(pieces))))
       IN  sd_pieces_once([counted EXCEPT !.total =
                             IF Len(pieces) = 1 THEN acc.total + 1 ELSE acc.total],
                          Tail(pieces))

\* for v in val.split(';'): v = v.strip(); count it
RECURSIVE sd_pieces(_, _)
sd_pieces(acc, pieces) ==
  IF pieces = <<>> THEN acc
  ELSE sd_pieces(sd_add(acc, StrCell(strip(Head(pieces)))), Tail(pieces))

\* the loop of SurveyDistribution.get_distribution over
\* self.df[question].dropna(): a str is split and its pieces are the keys,
\* any other value is its own key
RECURSIVE sd_values(_, _, _)
sd_values(acc, rows, question) ==
  IF rows = <<>> THEN acc
  ELSE LET val == Head(rows).c[question]
           counted == IF isna(val) THEN acc
                      ELSE IF isinstance_str(val) THEN sd_pieces(acc, split(val.s))
                      ELSE sd_add(acc, val)
       IN  sd_values(counted, Tail(rows), question)

\* SurveyDistribution(df).get_distribution(question) on the loader's table:
\* (counts, total) for a column, {} for a question that is none
sd_get_distribution(question) ==
  /\ ~no_data(get_data)
  /\ LET d == get_data
         result == sd_values([counts |-> EmptyDict, total |-> 0], d.rows, question)
     IN  ret' = IF ~has_column(d, question)
                THEN [Ret("sd_get_distribution", question, NoStr, "empty", "none", 0, 0)
                        EXCEPT !.dist = EmptyDict]
                ELSE [Ret("sd_get_distribution", question, NoStr, "tuple", "none",
                          result.total, 0) EXCEPT !.dist = result.counts]
  /\ held' = NoHandle
  /\ UNCHANGED <<file, df, original_df, filters>>
  /\ UNCHANGED session

\* distributions of a loaded file by both classes
NextPieces ==
  \/ load_data(SurveyPath)
  \/ \E question \in Questions : get_distribution(question)
  \/ \E question \in Questions : sd_get_distribution(question)

SpecPieces == InitPieces /\ [][NextPieces]_vars

(***************************************************************************)
(* The command loop of SurveyCLI. Every command sets ret to what it        *)
(* printed (an "Error: ..." line, or "none") or to the exception that left *)
(* the handler; loop tells whether the loop still runs.                    *)
(***************************************************************************)
\* the tables of the survey files the command loop is run on
CLITables ==
  { table \in Tables :
      \A i \in 1..Len(table) : table[i].c["Languages"] = StrCell(<<"1", ";", " ", "A">>) }

\* an argument string that is empty or blank
Blank == ""

\* the formats of chart <question> [format], one of them unknown
ChartFormats == { "terminal", "matplotlib", "table", "pie" }

\* SurveyCLI.__init__ without file_path: a DataLoader, no analyzer, no
\* loaded file
InitCLI ==
  /\ file \in CLITables
  /\ df = NoData
  /\ original_df = NoData
  /\ filters = EmptyDict
  /\ held = NoHandle
  /\ ret = Ret("init", "", NoStr, "none", "none", 0, 0)
  /\ analyzer = FALSE
  /\ file_path = NoPath
  /\ loaded_file = NoPath
  /\ loop = "running"

\* a plausible slip: the guard lets every command through
check_data_loaded_always == TRUE

\* SurveyCLI._check_data_loaded()
check_data_loaded == ~no_data(get_data)

\* DataLoader.get_questions()
get_questions(d) == IF no_data(d) THEN {} ELSE d.cols

\* the outcome of a command
RetCmd(op, question, raised) == Ret(op, question, NoStr, "none", raised, 0, 0)

\* a command that prints and changes nothing
Prints(op, question, line) ==
  /\ ret' = RetCmd(op, question, line)
  /\ UNCHANGED <<file, df, original_df, filters, held>>
  /\ UNCHANGED session

\* an exception leaves the handler and with it cmdloop()
Escapes(op, exception) ==
  /\ ret' = RetCmd(op, "", exception)
  /\ loop' = "raised"
  /\ UNCHANGED <<file, df, original_df, filters, held, analyzer, file_path, loaded_file>>

\* load <path>
do_load(path) ==
  /\ loop = "running"
  /\ IF path = Blank
     THEN Prints("do_load", "", "Error: usage")
     ELSE LET raised == load_data_raised(path, file)
              was_read == path_exists(path) /\ ~read_excel_raises(path)
          IN  /\ df' = IF was_read THEN read_excel(path, file) ELSE df
              /\ original_df' = IF was_read THEN read_excel(path, file) ELSE original_df
              /\ file_path' = IF was_read THEN path ELSE file_path
              /\ filters' = filters_after_load(filters, raised)
              /\ analyzer' = IF raised = "none" THEN TRUE ELSE analyzer
              /\ loaded_file' = IF raised = "none" THEN path ELSE loaded_file
              /\ ret' = [RetLoad(path, raised, IF raised = "none" THEN Rows(df') ELSE 0)
                           EXCEPT !.op = "do_load", !.before = Cardinality(DOMAIN filters)]
              /\ UNCHANGED <<file, held, loop>>

\* list_questions
do_list_questions ==
  /\ loop = "running"
  /\ IF ~check_data_loaded
     THEN Prints("do_list_questions", "", "Error: No data loaded")
     ELSE Prints("do_list_questions", "", "none")

\* search <keyword>
do_search(keyword) ==
  /\ loop = "running"
  /\ IF ~check_data_loaded
     THEN Prints("do_search", keyword, "Error: No data loaded")
     ELSE IF keyword = Blank
     THEN Prints("do_search", keyword, "Error: usage")
     ELSE Prints("do_search", keyword, "none")

\* filter <question>=<option>
do_filter(question, option) ==
  /\ loop = "running"
  /\ IF ~check_data_loaded
     THEN Prints("do_filter", question, "Error: No data loaded")
     ELSE IF question = Blank
     THEN Prints("do_filter", question, "Error: usage")
     ELSE IF question \notin get_questions(get_data)
     THEN Prints("do_filter", question, "Error: not found")
     ELSE IF ~analyzer
     THEN Prints("do_filter", question, "Error: AttributeError")
     ELSE /\ filters' = filters_after_lookup(filters, question, option, TRUE)
          /\ df' = filtered(get_data, question, option)
          /\ ret' = [RetCmd("do_filter", question, "none")
                       EXCEPT !.option = option, !.count = filter_return(df, df')]
          /\ UNCHANGED <<file, original_df, held>>
          /\ UNCHANGED session

\* distribution <question>
do_distribution(question) ==
  /\ loop = "running"
  /\ IF ~check_data_loaded
     THEN Prints("do_distribution", question, "Error: No data loaded")
     ELSE IF question = Blank
     THEN Prints("do_distribution", question, "Error: usage")
     ELSE IF question \notin get_questions(get_data)
     THEN Prints("do_distribution", question, "Error: not found")
     ELSE IF ~analyzer
     THEN Prints("do_distribution", question, "Error: AttributeError")
     ELSE Prints("do_distribution", question, "none")

\* chart <question> [format]
do_chart(question, chart_format) ==
  /\ loop = "running"
  /\ IF ~check_data_loaded
     THEN Prints("do_chart", question, "Error: No data loaded")
     ELSE IF question = Blank
     THEN Prints("do_chart", question, "Error: usage")
     ELSE IF question \notin get_questions(get_data)
     THEN Prints("do_chart", question, "Error: not found")
     ELSE IF ~analyzer
     THEN Prints("do_chart", question, "Error: AttributeError")
     ELSE IF chart_format \notin {"terminal", "matplotlib", "table"}
     THEN Prints("do_chart", question, "Unknown format")
     ELSE Prints("do_chart", question, "none")

\* reset: self.analyzer.reset_filters() outside any try
do_reset ==
  /\ loop = "running"
  /\ IF ~check_data_loaded
     THEN Prints("do_reset", "", "Error: No data loaded")
     ELSE IF ~analyzer
     THEN Escapes("do_reset", "AttributeError")
     ELSE /\ filters' = EmptyDict
          /\ df' = reset_data(df, original_df).df
          /\ original_df' = reset_data(df, original_df).original_df
          /\ ret' = RetCmd("do_reset", "", "none")
          /\ UNCHANGED <<file, held>>
          /\ UNCHANGED session

\* status: self.analyzer.get_summary_stats() outside any try
do_status ==
  /\ loop = "running"
  /\ IF ~check_data_loaded
     THEN Prints("do_status", "", "Error: No data loaded")
     ELSE IF ~analyzer
     THEN Escapes("do_status", "AttributeError")
     ELSE Prints("do_status", "", "none")

\* options <question>
do_options(question) ==
  /\ loop = "running"
  /\ IF ~check_data_loaded
     THEN Prints("do_options", question, "Error: No data loaded")
     ELSE IF question = Blank
     THEN Prints("do_options", question, "Error: usage")
     ELSE IF question \notin get_questions(get_data)
     THEN Prints("do_options", question, "Error: not found")
     ELSE Prints("do_options", question, "none")

\* exit and quit: the handler returns True and cmdloop() returns
do_exit ==
  /\ loop = "running"
  /\ ret' = RetCmd("do_exit", "", "none")
  /\ loop' = "ended"
  /\ UNCHANGED <<file, df, original_df, filters, held, analyzer, file_path, loaded_file>>

do_quit ==
  /\ loop = "running"
  /\ ret' = RetCmd("do_quit", "", "none")
  /\ loop' = "ended"
  /\ UNCHANGED <<file, df, original_df, filters, held, analyzer, file_path, loaded_file>>

\* the arguments the user types for a question
TypedQuestions == Questions \cup {Blank}

\* cmdloop(): one command after the other
NextCLI ==
  \/ \E path \in Paths \cup {Blank} : do_load(path)
  \/ do_list_questions
  \/ \E keyword \in {"Age", Blank} : do_search(keyword)
  \/ \E call \in FilterCalls \cup { <<Blank, NoStr>> } : do_filter(call[1], call[2])
  \/ \E question \in TypedQuestions : do_distribution(question)
  \/ \E question \in TypedQuestions, chart_format \in ChartFormats :
       do_chart(question, chart_format)
  \/ do_reset
  \/ do_status
  \/ \E question \in TypedQuestions : do_options(question)
  \/ do_exit
  \/ do_quit

SpecCLI == InitCLI /\ [][NextCLI]_vars

(***************************************************************************)
(* The renderer: SurveyVisualizer orders the items of a distribution.      *)
(***************************************************************************)
\* the option strings of the distributions handed to the renderer
OptionNames == { <<"A">>, <<"B">>, <<"C">>, <<"D">> }

\* distribution.items(): the (option, stats) pairs of a mapping in insertion
\* order, every option once; of the stats only the count decides the order
ItemLists ==
  UNION { { items \in [1..n -> [option : OptionNames, count : 1..MaxCount]] :
              \A i, j \in 1..n : i # j => items[i].option # items[j].option }
          : n \in 0..MaxOptions }

\* top_n: int = 10
DefaultTopN == 10

\* the values of top_n a caller passes
TopNs == (0..MaxOptions) \cup {DefaultTopN}

\* a plausible slip: an item goes in front of the items with its count, as
\* when an ascending sort is reversed
insert_by_count_before_equal(sorted, item) ==
  LET ahead == SelectSeq(sorted, LAMBDA x : x.count > item.count)
      behind == SelectSeq(sorted, LAMBDA x : x.count <= item.count)
  IN  ahead \o <<item>> \o behind

\* one step of the stable sort: the item goes behind every item whose count
\* is at least its own
insert_by_count(sorted, item) ==
  LET ahead == SelectSeq(sorted, LAMBDA x : x.count >= item.count)
      behind == SelectSeq(sorted, LAMBDA x : x.count < item.count)
  IN  ahead \o <<item>> \o behind

\* sorted(distribution.items(), key=lambda x: x[1]['count'], reverse=True):
\* Python's sort is stable, also with reverse=True
RECURSIVE sort_from(_, _)
sort_from(sorted, items) ==
  IF items = <<>> THEN sorted
  ELSE sort_from(insert_by_count(sorted, Head(items)), Tail(items))

sorted_items(items) == sort_from(<<>>, items)

\* seq[:top_n] for top_n >= 0
slice(seq, top_n) ==
  IF top_n >= Len(seq) THEN seq ELSE SubSeq(seq, 1, top_n)

\* the renderer was handed nothing yet
InitRender ==
  /\ file = <<>>
  /\ df = NoData
  /\ original_df = NoData
  /\ filters = EmptyDict
  /\ held = NoHandle
  /\ analyzer = FALSE
  /\ file_path = NoPath
  /\ loaded_file = NoPath
  /\ loop = "running"
  /\ \E items \in ItemLists :
       ret = [Ret("init", "", NoStr, "none", "none", 0, 0) EXCEPT !.items = items]

\* the outcome of a renderer call: the options it lists, in order
RetShown(op, top_n, shown) ==
  [ret EXCEPT !.op = op, !.top_n = top_n, !.shown = shown]

\* SurveyVisualizer.create_terminal_bar_chart(distribution, question)
create_terminal_bar_chart ==
  /\ ret' = RetShown("create_terminal_bar_chart", 0,
                     IF ret.items = <<>> THEN <<>> ELSE sorted_items(ret.items))
  /\ UNCHANGED <<file, df, original_df, filters, held>>
  /\ UNCHANGED session

\* SurveyVisualizer.create_matplotlib_bar_chart(distribution, question,
\* output_path, top_n)
create_matplotlib_bar_chart(top_n) ==
  /\ ret' = RetShown("create_matplotlib_bar_chart", top_n,
                     IF ret.items = <<>> THEN <<>>
                     ELSE slice(sorted_items(ret.items), top_n))
  /\ UNCHANGED <<file, df, original_df, filters, held>>
  /\ UNCHANGED session

\* SurveyVisualizer.create_summary_table(distribution, question, top_n)
create_summary_table(top_n) ==
  /\ ret' = RetShown("create_summary_table", top_n,
                     IF ret.items = <<>> THEN <<>>
                     ELSE slice(sorted_items(ret.items), top_n))
  /\ UNCHANGED <<file, df, original_df, filters, held>>
  /\ UNCHANGED session

\* the renderer called on one distribution any number of times
NextRender ==
  \/ create_terminal_bar_chart
  \/ \E top_n \in TopNs : create_matplotlib_bar_chart(top_n)
  \/ \E top_n \in TopNs : create_summary_table(top_n)

SpecRender == InitRender /\ [][NextRender]_vars

(***************************************************************************)
(* Vocabulary of the properties.                                           *)
(***************************************************************************)
\* s is t with some elements left out, the others in t's order
RECURSIVE IsSubsequence(_, _)
IsSubsequence(s, t) ==
  IF s = <<>> THEN TRUE
  ELSE IF t = <<>> THEN FALSE
  ELSE IF Head(s) = Head(t) THEN IsSubsequence(Tail(s), Tail(t))
  ELSE IsSubsequence(s, Tail(t))

\* the answer tokens of a cell text: the trimmed pieces between ';', or the
\* whole text when it holds no ';'
Tokens(s) ==
  IF InStr(";", s) THEN { strip(split(s)[i]) : i \in 1..Len(split(s)) } ELSE {s}

\* a cell satisfies a required option: it is not missing and the option is
\* one of its tokens
Satisfies(value, option) == ~isna(value) /\ option \in Tokens(str(value))

FilterDone == ret.op = "filter_respondents" /\ ret.raised = "none"

DistDone == ret.op = "get_distribution" /\ ret.raised = "none"

\* some non-missing value of the column, as text, holds ';'
HasDelimiter(d, question) ==
  \E i \in 1..Len(d.rows) :
    ~isna(d.rows[i].c[question]) /\ InStr(";", str(d.rows[i].c[question]))

\* the rows of d whose cell for the question is not missing
Answered(d, question) == { i \in 1..Len(d.rows) : ~isna(d.rows[i].c[question]) }

\* no piece of any cell of the column occurs twice in that cell
DistinctPieces(d, question) ==
  \A i \in Answered(d, question) :
    LET s == str(d.rows[i].c[question])
    IN  InStr(";", s) => Cardinality(Tokens(s)) = Len(split(s))

\* hundredths p is count / total * 100 to the nearest hundredth
NearestHundredth(p, count, total) ==
  LET diff == p * total - count * 10000
  IN  2 * (IF diff < 0 THEN 0 - diff ELSE diff) <= total

\* the sum of a field over the entries of a distribution
RECURSIVE SumOver(_, _, _)
SumOver(dist, keys, field) ==
  IF keys = {} THEN 0
  ELSE LET k == CHOOSE x \in keys : TRUE
       IN  dist[k][field] + SumOver(dist, keys \ {k}, field)

LoadDone == ret.op = "load_data" /\ ret.raised = "none"

(***************************************************************************)
(* Properties.                                                             *)
(***************************************************************************)
\* C1: a filter_respondents call that succeeds returns the number of rows of
\* the new current view, that number is at most the number of rows before
\* the call, and the new view is a subsequence of the previous view.
C1_FilterNarrows ==
  [][FilterDone' =>
       /\ ret'.count = Len(df'.rows)
       /\ Len(df'.rows) <= Len(df.rows)
       /\ IsSubsequence(df'.rows, df.rows)]_vars

\* a filter of a two-row table kept the second row only
C1_Witness ==
  /\ FilterDone
  /\ Len(original_df.rows) = 2
  /\ ret.count = 1
  /\ df.rows = <<original_df.rows[2]>>

\* C2: after reset_filters the current view is the original view (same rows,
\* same order) and there are no active filters.
C2_ResetRestores ==
  ret.op = "reset_filters" => (df = original_df /\ filters = EmptyDict)

\* a reset that gave back rows a filter had removed
C2_Witness ==
  /\ ret.op = "reset_filters"
  /\ ret.before < Len(df.rows)
  /\ df = original_df

\* C3: the current view is exactly the rows of the original view that
\* satisfy every active filter, in the original order.
C3_ViewIsFilteredOriginal ==
  ~df.none =>
    df.rows = SelectSeq(original_df.rows,
                        LAMBDA row : \A q \in DOMAIN filters : Satisfies(row.c[q], filters[q]))

\* C4: filter_respondents on a question that is no column of the current
\* view raises the 'not found' ValueError and changes neither the current
\* view nor the original view nor the active filters.
C4_UnknownQuestionNoEffect ==
  [][(ret'.op = "filter_respondents" /\ ~df.none /\ ret'.question \notin df.cols) =>
       /\ ret'.raised = "ValueError: not found"
       /\ df' = df
       /\ original_df' = original_df
       /\ filters' = filters]_vars

\* the call failed on a session that has a narrowed view and active filters
C4_Witness ==
  /\ ret.op = "filter_respondents"
  /\ ret.raised = "ValueError: not found"
  /\ ret.question = NonExistent
  /\ filters # EmptyDict
  /\ Len(df.rows) < Len(original_df.rows)

\* C5: no call but a load changes the original view.
C5_OriginalNeverChanges ==
  [][ret'.op # "load_data" => original_df' = original_df]_vars

\* a filter emptied the view of a loaded two-row table and the original
\* view is still the table of the file
C5_Witness ==
  /\ FilterDone
  /\ Len(file) = 2
  /\ df.rows = <<>>
  /\ original_df = Table(file)

\* C6: on a question classified single-answer, filter_respondents keeps a
\* row iff its cell is not missing and the cell's text equals the option,
\* also when the cell is a number.
C6_SingleKeepsStringified ==
  [][(FilterDone' /\ ret'.branch = "single") =>
       df'.rows = SelectSeq(df.rows,
                            LAMBDA row : /\ ~isna(row.c[ret'.question])
                                         /\ str(row.c[ret'.question]) = ret'.option)]_vars

\* C7: on a question classified multi-answer, filter_respondents keeps a row
\* iff its cell is not missing and the option is one of the trimmed pieces
\* of the cell's text split on ';' (the whole text when it holds no ';').
C7_MultiKeepsTokens ==
  [][(FilterDone' /\ ret'.branch = "multiple") =>
       df'.rows = SelectSeq(df.rows,
                            LAMBDA row : Satisfies(row.c[ret'.question], ret'.option))]_vars

\* a multi-answer filter kept a row for a piece that needed trimming and
\* dropped another row
C7_Witness ==
  /\ FilterDone
  /\ ret.branch = "multiple"
  /\ ret.option = <<"A">>
  /\ Len(df.rows) < Len(original_df.rows)
  /\ \E i \in 1..Len(df.rows) :
       df.rows[i].c[ret.question] = StrCell(<<"1", ";", " ", "A">>)

\* C8: from any view, two filters on two different questions give the same
\* final view in either order.
C8_FiltersCommute ==
  ~df.none =>
    \A q1 \in Columns, q2 \in Columns, o1 \in Options, o2 \in Options :
      q1 # q2 =>
        filtered(filtered(df, q1, o1), q2, o2) = filtered(filtered(df, q2, o2), q1, o1)

\* C9: a successful filter_respondents maps its question to its option and
\* keeps the entries of the other questions; reset and load leave no entry;
\* nothing else changes the active filters, whose keys are columns.
C9_OneOptionPerQuestion ==
  [][/\ DOMAIN filters' \subseteq Columns
     /\ FilterDone' =>
          /\ DOMAIN filters' = DOMAIN filters \cup {ret'.question}
          /\ filters'[ret'.question] = ret'.option
          /\ \A k \in DOMAIN filters \ {ret'.question} : filters'[k] = filters[k]
     /\ (ret'.op = "reset_filters" \/ LoadDone') => filters' = EmptyDict
     /\ (~FilterDone' /\ ret'.op # "reset_filters" /\ ~LoadDone') =>
          filters' = filters]_vars

\* a later filter on Age replaced its option (the view is empty although a
\* row of the original view has both recorded answers) while Languages kept
\* its own
C9_Witness ==
  /\ FilterDone
  /\ DOMAIN filters = Columns
  /\ ret.question = "Age"
  /\ filters["Age"] = <<"B">>
  /\ filters["Languages"] = <<"1">>
  /\ df.rows = <<>>
  /\ \E i \in 1..Len(original_df.rows) :
       /\ original_df.rows[i].c["Age"] = StrCell(<<"B">>)
       /\ original_df.rows[i].c["Languages"] = StrCell(<<"1">>)

\* C10: get_active_filters hands out a mapping equal to the active filters,
\* and a change the caller makes to it changes neither the active filters
\* nor the current view.
C10_ReturnedCopyIndependent ==
  [][/\ ret'.op = "get_active_filters" => held'.val = filters
     /\ ret'.op = "mutate_returned" => (filters' = filters /\ df' = df)]_vars

\* the caller changed a mapping returned while filters were active
C10_Witness ==
  /\ ret.op = "mutate_returned"
  /\ filters # EmptyDict
  /\ held.val # filters

\* C11: for a question that is a column of the current view,
\* is_multiple_choice returns true iff some non-missing value of the column,
\* as text, holds ';' (one such cell is enough; no rows or only missing
\* values give false).
C11_MultipleIffDelimiter ==
  (ret.op = "is_multiple_choice" /\ ~df.none /\ ret.question \in df.cols) =>
    ((ret.branch = "multiple") <=> HasDelimiter(df, ret.question))

\* a column with one cell holding ';' and one plain cell was classified
\* multi-answer
C11_Witness ==
  /\ ret.op = "is_multiple_choice"
  /\ ret.branch = "multiple"
  /\ Len(df.rows) = 2
  /\ df.rows[1].c[ret.question] = StrCell(<<"1">>)
  /\ df.rows[2].c[ret.question] = StrCell(<<"1", ";", " ", "A">>)

\* C12: a filter or distribution call classifies its question from the rows
\* the current view has when the call is made and from nothing else: once a
\* filter has removed every row holding ';' the question is treated as
\* single-answer, and after reset_filters as on the original view.
C12_ClassifiedFromCurrentView ==
  [][(FilterDone' \/ DistDone') =>
       ((ret'.branch = "multiple") <=> HasDelimiter(df, ret'.question))]_vars

\* a distribution treated as single-answer a question whose column holds
\* ';' in the original view, the rows holding it having been filtered out
C12_Witness ==
  /\ DistDone
  /\ ret.branch = "single"
  /\ filters # EmptyDict
  /\ df.rows # <<>>
  /\ HasDelimiter(original_df, ret.question)

\* C13 as stated: is_multiple_choice fails when the question is no column of
\* the view.
C13_UnknownQuestionFails ==
  (ret.op = "is_multiple_choice" /\ ~df.none /\ ret.question \notin df.cols) =>
    ret.raised # "none"

\* C13: is_multiple_choice on a question that is no column of the view does
\* not fail; it returns False.
C13_UnknownQuestionFalse ==
  (ret.op = "is_multiple_choice" /\ ~df.none /\ ret.question \notin df.cols) =>
    (ret.raised = "none" /\ ret.branch = "single")

\* the classifier was asked about a question that is no column of a loaded
\* table with a multi-answer column
C13_Witness ==
  /\ ret.op = "is_multiple_choice"
  /\ ret.question = NonExistent
  /\ ~df.none
  /\ HasDelimiter(df, "Languages")

\* C14: every percentage get_distribution returns is the entry's count over
\* the number of rows the current view has at the call, rows with a missing
\* cell included, times 100 to the nearest hundredth.
C14_DenominatorIsViewRows ==
  DistDone =>
    \A k \in DOMAIN ret.dist :
      NearestHundredth(ret.dist[k].percentage, ret.dist[k].count, Len(df.rows))

\* with filters active, one answered row of a two-row view whose other cell
\* is missing gave 50 percent to each of its two tokens
C14_Witness ==
  /\ DistDone
  /\ filters # EmptyDict
  /\ Len(df.rows) = 2
  /\ Cardinality(Answered(df, ret.question)) = 1
  /\ DOMAIN ret.dist = { <<"1">>, <<"A">> }
  /\ \A k \in DOMAIN ret.dist : ret.dist[k] = [count |-> 1, percentage |-> 5000]

\* C15: in a multi-answer distribution over cells without repeated pieces,
\* the count of a token is the number of rows having it among the tokens of
\* their cell (a row adds 1 to each of its tokens and 0 to any other; a
\* missing cell adds nothing), the tokens of a cell being its trimmed
\* pieces, or its whole text when it holds no ';'.
C15_MultiFanOut ==
  (DistDone /\ ret.branch = "multiple" /\ DistinctPieces(df, ret.question)) =>
    /\ DOMAIN ret.dist =
         UNION { Tokens(str(df.rows[i].c[ret.question])) : i \in Answered(df, ret.question) }
    /\ \A k \in DOMAIN ret.dist :
         ret.dist[k].count =
           Cardinality({ i \in 1..Len(df.rows) : Satisfies(df.rows[i].c[ret.question], k) })

\* a row with two tokens and a row with one of them: 2 for the shared
\* token, 1 for the other
C15_Witness ==
  /\ DistDone
  /\ ret.branch = "multiple"
  /\ Len(df.rows) = 2
  /\ DOMAIN ret.dist = { <<"1">>, <<"A">> }
  /\ ret.dist[<<"1">>].count = 2
  /\ ret.dist[<<"A">>].count = 1

\* C16: in a single-answer distribution the keys are the texts of the
\* non-missing cells, and the count under a key is the number of rows whose
\* cell is not missing and has that text, the number 1 and the text '1'
\* counted together.
C16_SingleCountsByText ==
  (DistDone /\ ret.branch = "single") =>
    /\ DOMAIN ret.dist =
         { str(df.rows[i].c[ret.question]) : i \in Answered(df, ret.question) }
    /\ \A k \in DOMAIN ret.dist :
         ret.dist[k].count =
           Cardinality({ i \in Answered(df, ret.question) :
                           str(df.rows[i].c[ret.question]) = k })

\* C17: for a single-answer question without missing values in a current
\* view that has rows, the counts sum to the number of rows and the
\* percentages to 100, give or take 0.01 per option.
C17_SingleCountsSum ==
  (DistDone /\ ret.branch = "single" /\ df.rows # <<>>
     /\ Cardinality(Answered(df, ret.question)) = Len(df.rows)) =>
    LET n == Cardinality(DOMAIN ret.dist)
        pct == SumOver(ret.dist, DOMAIN ret.dist, "percentage")
    IN  /\ SumOver(ret.dist, DOMAIN ret.dist, "count") = Len(df.rows)
        /\ 10000 - n <= pct
        /\ pct <= 10000 + n

\* C18: get_distribution on a view without rows, for a question of the
\* view, does not raise and divides by nothing: the mapping it returns is
\* empty or holds zero percentages only.
C18_ZeroRowsNoDivision ==
  (ret.op = "get_distribution" /\ ~df.none /\ ret.question \in df.cols
     /\ df.rows = <<>>) =>
    /\ ret.raised = "none"
    /\ \A k \in DOMAIN ret.dist : ret.dist[k].percentage = 0

\* the distribution of a view that a filter emptied, the original view
\* having two rows
C18_Witness ==
  /\ DistDone
  /\ df.rows = <<>>
  /\ filters # EmptyDict
  /\ Len(original_df.rows) = 2
  /\ ret.dist = EmptyDict

\* C19: filter_respondents and get_distribution called while the loader
\* holds no table raise 'No data loaded' and change neither the active
\* filters nor the loader's tables.
C19_NoDataLoaded ==
  [][((ret'.op = "filter_respondents" \/ ret'.op = "get_distribution") /\ df.none) =>
       /\ ret'.raised = "ValueError: No data loaded"
       /\ df' = df
       /\ original_df' = original_df
       /\ filters' = filters]_vars

\* a filter was refused before any load
C19_Witness ==
  /\ ret.op = "filter_respondents"
  /\ ret.raised = "ValueError: No data loaded"
  /\ ret.question = "Age"
  /\ df.none

\* C20: load_data raises FileNotFoundError for a path that does not exist
\* and ValueError for a file that cannot be read or that has no rows or no
\* columns; when it returns, it returns the table of the file and that
\* table has rows and columns.
C20_LoadOutcome ==
  ret.op = "load_data" =>
    /\ ret.path = MissingPath => ret.raised = "FileNotFoundError"
    /\ ret.path = UnreadablePath => ret.raised = "ValueError: Error reading file"
    /\ ret.path \in {HeaderOnlyPath, BlankPath} => ret.raised = "ValueError: empty"
    /\ ret.path = SurveyPath => ret.raised = "none"
    /\ ret.raised = "none" =>
         /\ df = Table(file)
         /\ df.rows # <<>>
         /\ df.cols # {}
         /\ ret.count = Len(df.rows)

\* a file with a header row and no data rows was refused
C20_Witness ==
  /\ ret.op = "load_data"
  /\ ret.path = HeaderOnlyPath
  /\ ret.raised = "ValueError: empty"

\* the item x of a distribution is listed ahead of the item y: its count is
\* larger, or equal with x inserted earlier
Ahead(items, x, y) ==
  \/ items[x].count > items[y].count
  \/ items[x].count = items[y].count /\ x < y

\* C21: the renderer lists the options of a distribution by descending
\* count, options with equal counts in the insertion order of the mapping;
\* with top_n (a number of answers, so not negative) exactly the first
\* min(top_n, number of options) entries of that order are listed, and
\* without it all of them.
C21_RenderOrder ==
  ret.op \in {"create_terminal_bar_chart", "create_matplotlib_bar_chart",
              "create_summary_table"} =>
    LET items == ret.items
        n == Len(items)
        m == IF ret.op = "create_terminal_bar_chart" THEN n
             ELSE IF ret.top_n < n THEN ret.top_n ELSE n
        pos(k) == CHOOSE i \in 1..n : items[i] = ret.shown[k]
    IN  /\ Len(ret.shown) = m
        /\ \A k \in 1..m : \E i \in 1..n : items[i] = ret.shown[k]
        /\ \A k, l \in 1..m : k < l => Ahead(items, pos(k), pos(l))
        /\ \A i \in 1..n :
             (\A k \in 1..m : ret.shown[k] # items[i]) =>
               \A k \in 1..m : Ahead(items, pos(k), i)

\* a table of the top two of three options: the one with the larger count,
\* inserted last, comes first, then the earlier of the two with equal counts
C21_Witness ==
  /\ ret.op = "create_summary_table"
  /\ ret.top_n = 2
  /\ ret.items = << [option |-> <<"A">>, count |-> 1],
                    [option |-> <<"B">>, count |-> 1],
                    [option |-> <<"C">>, count |-> 2] >>
  /\ ret.shown = << [option |-> <<"C">>, count |-> 2],
                    [option |-> <<"A">>, count |-> 1] >>

\* the commands that need data
DataCommands ==
  { "do_list_questions", "do_search", "do_filter", "do_distribution", "do_chart",
    "do_reset", "do_status", "do_options" }

\* C22: while the loader holds no table (nothing has been read), each of
\* list_questions, search, filter, distribution, chart, reset, status and
\* options prints that no data is loaded, changes neither the loader's
\* tables nor the analyzer nor the loaded file, and leaves the loop running.
C22_NoDataCommands ==
  [][(ret'.op \in DataCommands /\ df.none) =>
       /\ ret'.raised = "Error: No data loaded"
       /\ df' = df
       /\ original_df' = original_df
       /\ filters' = filters
       /\ UNCHANGED session]_vars

\* reset was refused in a session that has read no table and has no analyzer
C22_Witness ==
  /\ ret.op = "do_reset"
  /\ ret.raised = "Error: No data loaded"
  /\ df.none
  /\ ~analyzer
  /\ loaded_file = NoPath
  /\ loop = "running"

\* C24: after every load command that succeeds, also one given while
\* filters on a previous table are active, there are no active filters and
\* the current view and the original view are the table just loaded.
C24_LoadStartsClean ==
  (ret.op = "do_load" /\ ret.raised = "none") =>
    /\ filters = EmptyDict
    /\ df = original_df
    /\ df = Table(file)
    /\ analyzer
    /\ loaded_file = ret.path

\* a load succeeded while two filters were active
C24_Witness ==
  /\ ret.op = "do_load"
  /\ ret.raised = "none"
  /\ ret.before = 2
  /\ Len(df.rows) = 2

\* C25: a load that fails leaves the session as it was: df, original_df and
\* file_path of the loader, the analyzer, its active filters and
\* loaded_file.
C25_FailedLoadKeepsSession ==
  [][(ret'.op = "do_load" /\ ret'.raised # "none") =>
       /\ df' = df
       /\ original_df' = original_df
       /\ file_path' = file_path
       /\ analyzer' = analyzer
       /\ filters' = filters
       /\ loaded_file' = loaded_file]_vars

\* C26: in every state of a session, failed loads included, the analyzer
\* exists whenever _check_data_loaded returns True, no exception has left a
\* handler, and only exit and quit have ended the loop.
C26_AnalyzerWheneverData ==
  /\ check_data_loaded => analyzer
  /\ loop # "raised"
  /\ loop = "ended" => ret.op \in {"do_exit", "do_quit"}

\* how often the text k is a trimmed piece of the text s
Occurs(s, k) ==
  Cardinality({ i \in 1..Len(split(s)) : strip(split(s)[i]) = k })

\* the sum of f over the set keys
RECURSIVE Sum(_, _)
Sum(f, keys) ==
  IF keys = {} THEN 0
  ELSE LET k == CHOOSE x \in keys : TRUE IN f[k] + Sum(f, keys \ {k})

\* how many tokens SurveyDistribution takes from a cell: the pieces of a
\* str, one for any other value, none for a missing one
PiecesOf(value) ==
  IF isna(value) THEN 0
  ELSE IF isinstance_str(value) THEN Len(split(value.s)) ELSE 1

\* C23: SurveyDistribution.get_distribution on a column returns counts per
\* token and a total that is the sum of the counts, which is the number of
\* token occurrences over the non-missing cells (a str cell is split on ';'
\* and its pieces trimmed) and not the number of rows.
C23_TotalIsOccurrences ==
  (ret.op = "sd_get_distribution" /\ ret.question \in df.cols) =>
    LET q == ret.question
        cell(i) == df.rows[i].c[q]
    IN  /\ ret.count = Sum(ret.dist, DOMAIN ret.dist)
        /\ ret.count = Sum([i \in 1..Len(df.rows) |-> PiecesOf(cell(i))], 1..Len(df.rows))
        /\ \A k \in DOMAIN ret.dist :
             ret.dist[k] =
               Sum([i \in 1..Len(df.rows) |->
                      IF isna(cell(i)) THEN 0
                      ELSE IF isinstance_str(cell(i))
                           THEN (IF isinstance_str(k) THEN Occurs(cell(i).s, k.s) ELSE 0)
                           ELSE (IF cell(i) = k THEN 1 ELSE 0)],
                   1..Len(df.rows))

\* two rows with five token occurrences between them
C23_Witness ==
  /\ ret.op = "sd_get_distribution"
  /\ Len(df.rows) = 2
  /\ ret.count = 5
  /\ ret.dist[StrCell(<<"A">>)] = 3

\* C28: in a multi-answer distribution the count of a token is the number
\* of its occurrences over the non-missing cells of the view: a piece that
\* repeats in a cell counts each time and an empty piece is a token, so
\* that 'A;A' adds 2 to 'A', 'A;;B' adds 1 to the empty token, and a count
\* can exceed the number of rows.
C28_CountsOccurrences ==
  (DistDone /\ ret.branch = "multiple") =>
    LET q == ret.question
        occurs(i, k) ==
          IF isna(df.rows[i].c[q]) THEN 0
          ELSE IF InStr(";", str(df.rows[i].c[q])) THEN Occurs(str(df.rows[i].c[q]), k)
          ELSE IF str(df.rows[i].c[q]) = k THEN 1 ELSE 0
    IN  /\ \A k \in DOMAIN ret.dist :
             ret.dist[k].count =
               Sum([i \in 1..Len(df.rows) |-> occurs(i, k)], 1..Len(df.rows))
        /\ \A i \in Answered(df, q) :
             \A j \in 1..Len(split(str(df.rows[i].c[q]))) :
               InStr(";", str(df.rows[i].c[q])) =>
                 strip(split(str(df.rows[i].c[q]))[j]) \in DOMAIN ret.dist

\* 'A;A' and 'A;;B': 3 for 'A' in a view of 2 rows, 1 for the empty token
C28_Witness ==
  /\ DistDone
  /\ ret.branch = "multiple"
  /\ Len(df.rows) = 2
  /\ DOMAIN ret.dist = { <<"A">>, <<>>, <<"B">> }
  /\ ret.dist[<<"A">>].count = 3
  /\ ret.dist[<<>>].count = 1

\* C27: for every question of the current view and every option that
\* get_unique_values lists for it on that view, filter_respondents with
\* that option returns at least 1, whatever the cell types of the column.
C27_ListedOptionSelects ==
  ~no_data(get_data) =>
    \A q \in get_questions(get_data) :
      \A o \in get_unique_values(get_data, q) :
        filter_return(get_data, filtered(get_data, q, o)) >= 1

\* C29: nothing a read operation of SurveyAnalyzer returns
\* (get_active_filters, get_summary_stats, get_distribution) lets the
\* caller change the active filters: after the caller changes a returned
\* mapping the active filters are what they were.
C29_ReadsLeakNothing ==
  [][ret'.op = "mutate_returned" => filters' = filters]_vars

\* C30: the two filter implementations agree: on the same table, question
\* and option SurveyFilter.apply_filter and
\* SurveyAnalyzer.filter_respondents keep the same rows, so that the same
\* sequence of filters and resets leaves both with the same view.
C30_FiltersAgree ==
  ~no_data(get_data) =>
    \A q \in get_questions(get_data), o \in Options :
      apply_filter(get_data, q, o).rows = filtered(get_data, q, o).rows

====
